---- MODULE Spec2Model ----
(***************************************************************************)
(* Move resolution of ascension-bot (src/src/moves.py).                    *)
(*                                                                         *)
(* A Move is a (move_type, card_name, targets) triple.  apply_to_board     *)
(* records the move, dispatches on move_type to apply_play, apply_acquire, *)
(* apply_defeat or apply_activate, and those resolve the card's effect     *)
(* tree with _activate_effects, which applies the moves an effect          *)
(* synthesizes, unrecorded, by calling apply_to_board again.               *)
(*                                                                         *)
(* Python calls are nested and synchronous, so one action is one top-level *)
(* call and the recursion is a recursive operator over a world record      *)
(* w = [board, trace, err, depth].  A raised exception is w.err /= NoErr;  *)
(* moves.py has no try/except, so every step after a raise is skipped.     *)
(* w.trace lists, in program order, what the call did: the calls and       *)
(* returns of apply_to_board, the simple effects handed to                 *)
(* apply_simple_effect, the give_honor calls, the strategy events and the  *)
(* raise.                                                                  *)
(***************************************************************************)
EXTENDS Integers, Sequences, FiniteSets, TLC

\* Number of top-level apply_to_board calls (and tampered ones) in a run.
MaxMoves == 2

(***************************************************************************)
(* Targets: None, or a dict from effect index to a list of card names.     *)
(***************************************************************************)
None == [none |-> TRUE, map |-> <<>>]

Dict(f) == [none |-> FALSE, map |-> f]

\* {k: [] ...} over the keys K; the entry of effect 2 carries the target "X"
TargetsOver(K) == Dict([k \in K |-> IF k = 2 THEN <<"X">> ELSE <<>>])

IsNone(t) == t.none

\* `k in targets` for a dict
HasKey(t, k) == k \in DOMAIN t.map

(***************************************************************************)
(* Effects (card_decoder.effects) and the card dictionary: a fabricated    *)
(* card set.  `pending` is what apply_simple_effect returns for the        *)
(* effect: the move descriptors it synthesizes.                            *)
(***************************************************************************)
SimpleEffect(idx, opt, pending) ==
  [type |-> "simple", effect_index |-> idx, optional |-> opt, pending |-> pending]

CompoundEffect(ct, effs) ==
  [type |-> "compound", compound_type |-> ct, effects |-> effs]

Card(n, c, hero, lifebound, construct, eff) ==
  [name |-> n, cost |-> c, hero |-> hero, lifebound |-> lifebound,
   construct |-> construct, effect |-> eff]

CardNames == {"Cultist", "Troll", "Hero", "Mystic", "Engine", "Chain", "Scout"}

CardDict ==
  [n \in CardNames |->
    CASE n = "Cultist" ->
           Card(n, 2, FALSE, FALSE, FALSE, SimpleEffect(1, FALSE, <<>>))
      [] n = "Troll" ->
           \* OR(1, AND(2, 3))
           Card(n, 2, FALSE, FALSE, FALSE,
             CompoundEffect("OR", <<
               SimpleEffect(1, FALSE, <<>>),
               CompoundEffect("AND", << SimpleEffect(2, FALSE, <<>>),
                                        SimpleEffect(3, TRUE, <<>>) >>) >>))
      [] n = "Hero" ->
           \* AND(1 mandatory: play Scout, OR(2, 3))
           Card(n, 2, TRUE, TRUE, FALSE,
             CompoundEffect("AND", <<
               SimpleEffect(1, FALSE, << <<"play", "Scout", None>> >>),
               CompoundEffect("OR", << SimpleEffect(2, TRUE, <<>>),
                                       SimpleEffect(3, TRUE, <<>>) >>) >>))
      [] n = "Mystic" ->
           Card(n, 4, TRUE, TRUE, FALSE, SimpleEffect(1, FALSE, <<>>))
      [] n = "Engine" ->
           \* AND(1: play Scout, 2 optional)
           Card(n, 4, FALSE, FALSE, TRUE,
             CompoundEffect("AND", <<
               SimpleEffect(1, TRUE, << <<"play", "Scout", None>> >>),
               SimpleEffect(2, TRUE, <<>>) >>))
      [] n = "Chain" ->
           Card(n, 1, TRUE, FALSE, FALSE,
             SimpleEffect(1, FALSE, << <<"play", "Scout", None>>,
                                       <<"acquire", "Mystic", None>> >>))
      [] n = "Scout" ->
           Card(n, 1, TRUE, FALSE, FALSE,
             SimpleEffect(1, FALSE,
               << <<"defeat", "Cultist", TargetsOver({1})>> >>))]

\* card_dictionary.find_card
find_card(name) == CardDict[name]

is_lifebound(card) == card.lifebound
is_hero(card) == card.hero
is_construct(card) == card.construct

\* The center pile of Cultist is never exhausted.
AlwaysAvailable == {"Cultist"}

(***************************************************************************)
(* The world record, exceptions and the trace.                             *)
(***************************************************************************)
NoErr == "none"
InvalidMoveShape == "InvalidMoveShape"
AmbiguousOrTarget == "AmbiguousOrTarget"
MissingMandatoryTarget == "MissingMandatoryTarget"
\* The failing assert of apply_defeat; formatting its message reads
\* self.power_remaining, which a Move does not have, so what reaches the
\* caller is an AttributeError.
InsufficientPower == "InsufficientPower"
TypeError == "TypeError"
CardNotAvailable == "CardNotAvailable"
CardUnavailable == "CardUnavailable"
InsufficientResources == "InsufficientResources"
ConstructNotInPlay == "ConstructNotInPlay"
ConstructAlreadyActivated == "ConstructAlreadyActivated"

Failed(w) == w.err /= NoErr

Emit(w, ev) == [w EXCEPT !.trace = Append(@, ev)]

Raise(w, e) ==
  [w EXCEPT !.err = e,
            !.trace = Append(@, [k |-> "raise", d |-> w.depth, err |-> e])]

(***************************************************************************)
(* Board and player operations the moves call.                             *)
(***************************************************************************)
\* An operation of the board or the player that went through, in the trace.
Did(w, op, card_name) ==
  Emit(w, [k |-> op, d |-> w.depth, card_name |-> card_name])

remove_card_from_center(w, name) ==
  IF w.board.center[name] = 0 THEN Raise(w, CardUnavailable)
  ELSE IF name \in AlwaysAvailable THEN Did(w, "remove", name)
  ELSE Did([w EXCEPT !.board.center[name] = @ - 1], "remove", name)

give_honor(w, amount) ==
  Emit([w EXCEPT !.board.honor = @ + amount],
       [k |-> "give_honor", d |-> w.depth, amount |-> amount])

play_card(w, name) ==
  IF name \notin w.board.hand THEN Raise(w, CardNotAvailable)
  ELSE IF is_construct(find_card(name))
       THEN [w EXCEPT !.board.hand = @ \ {name}, !.board.constructs = @ \cup {name}]
       ELSE [w EXCEPT !.board.hand = @ \ {name}, !.board.played = @ \cup {name}]

pay_for_acquired_card(w, card) ==
  IF card.cost > w.board.runes_remaining THEN Raise(w, InsufficientResources)
  ELSE Did([w EXCEPT !.board.runes_remaining = @ - card.cost], "pay", card.name)

acquire(w, card) ==
  Did([w EXCEPT !.board.acquired = Append(@, card.name)], "acquire", card.name)

activate_construct(w, name) ==
  IF name \notin w.board.constructs THEN Raise(w, ConstructNotInPlay)
  ELSE IF name \in w.board.activated THEN Raise(w, ConstructAlreadyActivated)
  ELSE [w EXCEPT !.board.activated = @ \cup {name}]

raise_strategy_card_events(w, event, card_name) ==
  Emit(w, [k |-> "event", d |-> w.depth, event |-> event, card_name |-> card_name])

\* apply_simple_effect(board, effect, targets): the handler is handed the
\* move's targets and returns the moves it synthesizes.
apply_simple_effect(w, card_name, effect, targets) ==
  [w |-> Emit(w, [k |-> "effect", d |-> w.depth, card_name |-> card_name,
                  effect_index |-> effect.effect_index, targets |-> targets]),
   pending |-> effect.pending]

(***************************************************************************)
(* Move.__init__                                                           *)
(***************************************************************************)
MoveTypes == {"acquire", "defeat", "play", "activate"}

MoveRec(mt, c, t) == [move_type |-> mt, card_name |-> c, targets |-> t]

\* the asserts of the constructor
MoveInitOk(mt, c, t) ==
  /\ mt \in MoveTypes
  /\ (mt = "acquire" => IsNone(t))

(***************************************************************************)
(* Move._activate_effects and the four handlers.                           *)
(***************************************************************************)
RECURSIVE get_effect_list(_)
get_effect_list(effect) ==
  IF effect.type = "simple" THEN << effect >>
  ELSE LET RECURSIVE Cat(_)
           Cat(i) == IF i > Len(effect.effects) THEN <<>>
                     ELSE get_effect_list(effect.effects[i]) \o Cat(i + 1)
       IN Cat(1)

RECURSIVE apply_to_board(_, _, _)
RECURSIVE activate_effects(_, _, _)
RECURSIVE apply_pending_moves(_, _, _)
RECURSIVE activate_each(_, _, _, _)

\* for move_type, card_name, targets in pending_moves:
\*   Move(move_type, card_name, targets).apply_to_board(board, False)
\* The pending moves applied last to first.
apply_pending_moves_reversed(w, pending, i) ==
  IF Failed(w) \/ i > Len(pending) THEN w
  ELSE LET p == pending[Len(pending) + 1 - i]
       IN IF ~MoveInitOk(p[1], p[2], p[3]) THEN Raise(w, InvalidMoveShape)
          ELSE apply_pending_moves(
                 apply_to_board(w, MoveRec(p[1], p[2], p[3]), FALSE),
                 pending, i + 1)

apply_pending_moves(w, pending, i) ==
  IF Failed(w) \/ i > Len(pending) THEN w
  ELSE LET p == pending[i]
       IN IF ~MoveInitOk(p[1], p[2], p[3]) THEN Raise(w, InvalidMoveShape)
          ELSE apply_pending_moves(
                 apply_to_board(w, MoveRec(p[1], p[2], p[3]), FALSE),
                 pending, i + 1)

\* for effect in effects_with_targets: self._activate_effects(board, effect)
\* The loop catching the failure of an effect and going on with the next.
activate_each_catching(w, m, effs, i) ==
  IF i > Len(effs) THEN w
  ELSE LET go_on(x) == [x EXCEPT !.err = NoErr]
       IN activate_each(go_on(activate_effects(w, m, effs[i])), m, effs, i + 1)

activate_each(w, m, effs, i) ==
  IF Failed(w) \/ i > Len(effs) THEN w
  ELSE activate_each(activate_effects(w, m, effs[i]), m, effs, i + 1)

\* effects_with_targets without the filter on the target keys.
effects_with_targets_unfiltered(m, effect) == get_effect_list(effect)

effects_with_targets(m, effect) ==
  SelectSeq(get_effect_list(effect), LAMBDA e : HasKey(m.targets, e.effect_index))

\* _activate_effects resolving an OR by taking the first keyed effect, and
\* nothing when none is keyed.
activate_effects_pick_first(w, m, effect) ==
  IF Failed(w) THEN w
  ELSE IF effect.type = "simple"
  THEN LET pending_moves(r) == apply_pending_moves(r.w, r.pending, 1)
       IN pending_moves(apply_simple_effect(w, m.card_name, effect, m.targets))
  ELSE IF IsNone(m.targets) /\ get_effect_list(effect) /= <<>>
       THEN Raise(w, TypeError)
       ELSE LET resolve(ewt) ==
                  IF effect.compound_type = "AND"
                  THEN activate_each(w, m, ewt, 1)
                  ELSE IF Len(ewt) = 0 THEN w
                       ELSE activate_effects(w, m, ewt[1])
            IN resolve(effects_with_targets(m, effect))

\* _activate_effects resolving an OR by the number of keys of the targets.
activate_effects_counts_keys(w, m, effect) ==
  IF Failed(w) THEN w
  ELSE IF effect.type = "simple"
  THEN LET pending_moves(r) == apply_pending_moves(r.w, r.pending, 1)
       IN pending_moves(apply_simple_effect(w, m.card_name, effect, m.targets))
  ELSE IF IsNone(m.targets) /\ get_effect_list(effect) /= <<>>
       THEN Raise(w, TypeError)
       ELSE LET resolve(ewt) ==
                  IF effect.compound_type = "AND"
                  THEN activate_each(w, m, ewt, 1)
                  ELSE IF Cardinality(DOMAIN m.targets.map) /= 1
                       THEN Raise(w, AmbiguousOrTarget)
                       ELSE activate_effects(w, m, ewt[1])
            IN resolve(effects_with_targets(m, effect))

\* _activate_effects reading targets that are None as an empty dict.
activate_effects_none_as_empty(w, m, effect) ==
  IF Failed(w) THEN w
  ELSE IF effect.type = "simple"
  THEN LET pending_moves(r) == apply_pending_moves(r.w, r.pending, 1)
       IN pending_moves(apply_simple_effect(w, m.card_name, effect, m.targets))
  ELSE LET resolve(ewt) ==
             IF effect.compound_type = "AND"
             THEN activate_each(w, m, ewt, 1)
             ELSE IF Len(ewt) /= 1 THEN Raise(w, AmbiguousOrTarget)
                  ELSE activate_effects(w, m, ewt[1])
       IN resolve(IF IsNone(m.targets) THEN <<>> ELSE effects_with_targets(m, effect))

\* _activate_effects raising on an AND whose non-optional effect has no key.
activate_effects_mandatory(w, m, effect) ==
  IF Failed(w) THEN w
  ELSE IF effect.type = "simple"
  THEN LET pending_moves(r) == apply_pending_moves(r.w, r.pending, 1)
       IN pending_moves(apply_simple_effect(w, m.card_name, effect, m.targets))
  ELSE IF IsNone(m.targets) /\ get_effect_list(effect) /= <<>>
       THEN Raise(w, TypeError)
       ELSE LET resolve(ewt) ==
                  IF effect.compound_type = "AND"
                  THEN IF \E i \in 1..Len(get_effect_list(effect)) :
                            /\ ~get_effect_list(effect)[i].optional
                            /\ ~HasKey(m.targets, get_effect_list(effect)[i].effect_index)
                       THEN Raise(w, MissingMandatoryTarget)
                       ELSE activate_each(w, m, ewt, 1)
                  ELSE IF Len(ewt) /= 1 THEN Raise(w, AmbiguousOrTarget)
                       ELSE activate_effects(w, m, ewt[1])
            IN resolve(effects_with_targets(m, effect))

activate_effects(w, m, effect) ==
  IF Failed(w) THEN w
  ELSE IF effect.type = "simple"
  THEN LET pending_moves(r) == apply_pending_moves(r.w, r.pending, 1)
       IN pending_moves(apply_simple_effect(w, m.card_name, effect, m.targets))
  ELSE \* `e.effect_index in self.targets` with targets None
       IF IsNone(m.targets) /\ get_effect_list(effect) /= <<>>
       THEN Raise(w, TypeError)
       ELSE LET resolve(ewt) ==
                  IF effect.compound_type = "AND"
                  THEN activate_each(w, m, ewt, 1)
                  ELSE IF Len(ewt) /= 1 THEN Raise(w, AmbiguousOrTarget)
                       ELSE activate_effects(w, m, ewt[1])
            IN resolve(effects_with_targets(m, effect))

activate_card_effects(w, m) ==
  IF Failed(w) THEN w
  ELSE activate_effects(w, m, find_card(m.card_name).effect)

\* The statements of a handler are steps over the world, composed in program
\* order; a step after a raise is skipped.
\* apply_play resolving the effects of constructs too.
apply_play_any_card(w, m) ==
  LET card == find_card(m.card_name)
      bonus(x) == IF is_lifebound(card) /\ is_hero(card)
                  THEN [give_honor(x, x.board.honor_for_lifebound_hero)
                          EXCEPT !.board.honor_for_lifebound_hero = 0]
                  ELSE x
      play(x) == play_card(x, m.card_name)
      effects(x) == IF Failed(x) THEN x ELSE activate_card_effects(x, m)
  IN effects(play(bonus(w)))

\* apply_play that grants the bonus and does not reset it.
apply_play_keeps_bonus(w, m) ==
  LET card == find_card(m.card_name)
      bonus(x) == IF is_lifebound(card) /\ is_hero(card)
                  THEN give_honor(x, x.board.honor_for_lifebound_hero)
                  ELSE x
      play(x) == play_card(x, m.card_name)
      effects(x) == IF Failed(x) \/ is_construct(card) THEN x
                    ELSE activate_card_effects(x, m)
  IN effects(play(bonus(w)))

apply_play(w, m) ==
  LET card == find_card(m.card_name)
      bonus(x) == IF is_lifebound(card) /\ is_hero(card)
                  THEN [give_honor(x, x.board.honor_for_lifebound_hero)
                          EXCEPT !.board.honor_for_lifebound_hero = 0]
                  ELSE x
      play(x) == play_card(x, m.card_name)
      effects(x) == IF Failed(x) \/ is_construct(card) THEN x
                    ELSE activate_card_effects(x, m)
  IN effects(play(bonus(w)))

\* apply_acquire putting the card in the acquired pile before it is paid for.
apply_acquire_takes_first(w, m) ==
  LET card == find_card(m.card_name)
      remove(x) == IF ~IsNone(m.targets) THEN Raise(x, InvalidMoveShape)
                   ELSE remove_card_from_center(x, m.card_name)
      take(x) == IF Failed(x) THEN x ELSE acquire(x, card)
      pay(x) == IF Failed(x) THEN x ELSE pay_for_acquired_card(x, card)
      event(x) == IF Failed(x) THEN x
                  ELSE raise_strategy_card_events(x, "acquired_card", m.card_name)
  IN event(pay(take(remove(w))))

\* apply_acquire without its assert on the targets.
apply_acquire_unchecked(w, m) ==
  LET card == find_card(m.card_name)
      remove(x) == remove_card_from_center(x, m.card_name)
      pay(x) == IF Failed(x) THEN x ELSE pay_for_acquired_card(x, card)
      take(x) == IF Failed(x) THEN x ELSE acquire(x, card)
      event(x) == IF Failed(x) THEN x
                  ELSE raise_strategy_card_events(x, "acquired_card", m.card_name)
  IN event(take(pay(remove(w))))

apply_acquire(w, m) ==
  LET card == find_card(m.card_name)
      remove(x) == IF ~IsNone(m.targets) THEN Raise(x, InvalidMoveShape)
                   ELSE remove_card_from_center(x, m.card_name)
      pay(x) == IF Failed(x) THEN x ELSE pay_for_acquired_card(x, card)
      take(x) == IF Failed(x) THEN x ELSE acquire(x, card)
      event(x) == IF Failed(x) THEN x
                  ELSE raise_strategy_card_events(x, "acquired_card", m.card_name)
  IN event(take(pay(remove(w))))

\* apply_defeat that grants the bonus and does not reset it.
apply_defeat_keeps_bonus(w, m) ==
  LET card == find_card(m.card_name)
      remove(x) == remove_card_from_center(x, m.card_name)
      power(x) == IF Failed(x) THEN x
                  ELSE IF ~(card.cost <= x.board.power_remaining)
                       THEN Raise(x, InsufficientPower)
                       ELSE [x EXCEPT !.board.power_remaining = @ - card.cost]
      bonus(x) == IF Failed(x) THEN x
                  ELSE IF card.name /= "Cultist"
                       THEN give_honor(x, x.board.honor_for_defeating_monster)
                       ELSE x
      effects(x) == activate_card_effects(x, m)
      event(x) == IF Failed(x) THEN x
                  ELSE raise_strategy_card_events(x, "defeated_card", m.card_name)
  IN event(effects(bonus(power(remove(w)))))

\* apply_defeat without the assert on the power.
apply_defeat_unchecked(w, m) ==
  LET card == find_card(m.card_name)
      remove(x) == remove_card_from_center(x, m.card_name)
      power(x) == IF Failed(x) THEN x
                  ELSE [x EXCEPT !.board.power_remaining = @ - card.cost]
      bonus(x) == IF Failed(x) THEN x
                  ELSE IF card.name /= "Cultist"
                       THEN [give_honor(x, x.board.honor_for_defeating_monster)
                               EXCEPT !.board.honor_for_defeating_monster = 0]
                       ELSE x
      effects(x) == activate_card_effects(x, m)
      event(x) == IF Failed(x) THEN x
                  ELSE raise_strategy_card_events(x, "defeated_card", m.card_name)
  IN event(effects(bonus(power(remove(w)))))

\* apply_defeat without the exclusion of Cultist.
apply_defeat_any_card(w, m) ==
  LET card == find_card(m.card_name)
      remove(x) == remove_card_from_center(x, m.card_name)
      power(x) == IF Failed(x) THEN x
                  ELSE IF ~(card.cost <= x.board.power_remaining)
                       THEN Raise(x, InsufficientPower)
                       ELSE [x EXCEPT !.board.power_remaining = @ - card.cost]
      bonus(x) == IF Failed(x) THEN x
                  ELSE [give_honor(x, x.board.honor_for_defeating_monster)
                          EXCEPT !.board.honor_for_defeating_monster = 0]
      effects(x) == activate_card_effects(x, m)
      event(x) == IF Failed(x) THEN x
                  ELSE raise_strategy_card_events(x, "defeated_card", m.card_name)
  IN event(effects(bonus(power(remove(w)))))

apply_defeat(w, m) ==
  LET card == find_card(m.card_name)
      remove(x) == remove_card_from_center(x, m.card_name)
      power(x) == IF Failed(x) THEN x
                  ELSE IF ~(card.cost <= x.board.power_remaining)
                       THEN Raise(x, InsufficientPower)
                       ELSE [x EXCEPT !.board.power_remaining = @ - card.cost]
      bonus(x) == IF Failed(x) THEN x
                  ELSE IF card.name /= "Cultist"
                       THEN [give_honor(x, x.board.honor_for_defeating_monster)
                               EXCEPT !.board.honor_for_defeating_monster = 0]
                       ELSE x
      effects(x) == activate_card_effects(x, m)
      event(x) == IF Failed(x) THEN x
                  ELSE raise_strategy_card_events(x, "defeated_card", m.card_name)
  IN event(effects(bonus(power(remove(w)))))

apply_activate(w, m) ==
  activate_card_effects(activate_construct(w, m.card_name), m)

\* move_type_to_fn[self.move_type](board)
dispatch(w, m) ==
  CASE m.move_type = "play" -> apply_play(w, m)
    [] m.move_type = "acquire" -> apply_acquire(w, m)
    [] m.move_type = "defeat" -> apply_defeat(w, m)
    [] m.move_type = "activate" -> apply_activate(w, m)

\* apply_to_board recording every move, whatever should_add_to_moves.
apply_to_board_always_records(w, m, should_add_to_moves) ==
  LET record(x) == [x EXCEPT !.board.moves = Append(@, m),
                             !.board.moves_played_this_turn = Append(@, m)]
      enter(x) == Emit([x EXCEPT !.depth = @ + 1],
                       [k |-> "call", d |-> x.depth + 1, move |-> m,
                        record |-> should_add_to_moves])
      leave(x) == IF Failed(x) THEN x
                  ELSE [Emit(x, [k |-> "ret", d |-> x.depth]) EXCEPT !.depth = @ - 1]
  IN leave(dispatch(enter(record(w)), m))

apply_to_board(w, m, should_add_to_moves) ==
  LET record(x) == IF should_add_to_moves
                   THEN [x EXCEPT !.board.moves = Append(@, m),
                                  !.board.moves_played_this_turn = Append(@, m)]
                   ELSE x
      enter(x) == Emit([x EXCEPT !.depth = @ + 1],
                       [k |-> "call", d |-> x.depth + 1, move |-> m,
                        record |-> should_add_to_moves])
      leave(x) == IF Failed(x) THEN x
                  ELSE [Emit(x, [k |-> "ret", d |-> x.depth]) EXCEPT !.depth = @ - 1]
  IN leave(dispatch(enter(record(w)), m))

(***************************************************************************)
(* State: the board with its current player, and about the last top-level  *)
(* call: the board it started from, its trace and its outcome; and the     *)
(* list of all top-level calls so far.                                     *)
(***************************************************************************)
VARIABLES board, before, trace, err, calls

vars == <<board, before, trace, err, calls>>

Init ==
  /\ \E bonus \in {0, 1} :
       board = [hand |-> {"Hero", "Engine", "Chain", "Scout"},
                center |-> [n \in CardNames |->
                              CASE n \in {"Cultist", "Mystic"} -> 1
                                [] n = "Troll" -> 2
                                [] OTHER -> 0],
                played |-> {}, constructs |-> {}, activated |-> {},
                acquired |-> <<>>,
                runes_remaining |-> 4, power_remaining |-> 5, honor |-> 0,
                honor_for_lifebound_hero |-> bonus,
                honor_for_defeating_monster |-> 2 * bonus,
                moves |-> <<>>, moves_played_this_turn |-> <<>>]
  /\ before = board
  /\ trace = <<>>
  /\ err = NoErr
  /\ calls = <<>>

World == [board |-> board, trace |-> <<>>, err |-> NoErr, depth |-> 0]

\* What is kept of a top-level call: the move, the board it started from,
\* its trace and its outcome.
CallRec(m, record, constructed, w) ==
  [move |-> m, record |-> record, constructed |-> constructed,
   before |-> board, trace |-> w.trace, err |-> w.err]

\* m.apply_to_board(board, record) as a top-level call
Call(m, record) ==
  LET Returned(w) ==
        /\ board' = w.board
        /\ before' = board
        /\ trace' = w.trace
        /\ err' = w.err
        /\ calls' = Append(calls, CallRec(m, record, TRUE, w))
  IN Returned(apply_to_board(World, m, record))

\* Move(move_type, card_name, targets).apply_to_board(board, record): when
\* the constructor raises, nothing is applied.
Run(mt, c, t, record) ==
  IF ~MoveInitOk(mt, c, t)
  THEN LET Returned(w) ==
             /\ board' = board
             /\ before' = board
             /\ trace' = w.trace
             /\ err' = w.err
             /\ calls' = Append(calls, CallRec(MoveRec(mt, c, t), record, FALSE, w))
       IN Returned(Raise(World, InvalidMoveShape))
  ELSE Call(MoveRec(mt, c, t), record)

\* Target maps a caller supplies: key sets over the effect indices 1..3 and
\* the key 9, which is no effect index of any card.
KeySets == {{}, {1}, {2}, {1, 2}, {2, 3}, {1, 2, 3}, {1, 9}}

TargetMaps == {None} \cup {TargetsOver(K) : K \in KeySets}

\* For a card whose root effect is simple only None, {} and {1: []} differ.
TargetsFor(c) ==
  IF find_card(c).effect.type = "compound" THEN TargetMaps
  ELSE {None, TargetsOver({}), TargetsOver({1})}

Play ==
  \E c \in {"Hero", "Engine", "Chain", "Scout", "Mystic"} : \E t \in TargetsFor(c) :
    /\ Len(calls) < MaxMoves
    /\ Run("play", c, t, TRUE)

Acquire ==
  \E c \in {"Mystic", "Troll"}, t \in {None, TargetsOver({})} :
    /\ Len(calls) < MaxMoves
    /\ Run("acquire", c, t, TRUE)

Defeat ==
  \E c \in {"Cultist", "Troll", "Mystic"} : \E t \in TargetsFor(c) :
    /\ Len(calls) < MaxMoves
    /\ Run("defeat", c, t, TRUE)

Activate ==
  \E c \in {"Engine"} : \E t \in TargetsFor(c) :
    /\ Len(calls) < MaxMoves
    /\ Run("activate", c, t, TRUE)

\* A caller that applies a move with should_add_to_moves=False.
Unrecorded ==
  \E d \in { <<"play", "Scout", TargetsOver({1})>>,
             <<"defeat", "Cultist", TargetsOver({1})>>,
             <<"play", "Hero", TargetsOver({1, 2})>>,
             <<"acquire", "Mystic", None>> } :
    /\ Len(calls) < MaxMoves
    /\ Run(d[1], d[2], d[3], FALSE)

\* An acquire move whose targets were assigned after construction
\* (m = Move("acquire", c, None); m.targets = t; m.apply_to_board(board)).
AcquireTampered ==
  \E c \in {"Mystic"}, t \in {TargetsOver({}), TargetsOver({1})} :
    /\ Len(calls) < MaxMoves
    /\ Call(MoveRec("acquire", c, t), TRUE)

Next == Play \/ Acquire \/ Defeat \/ Activate \/ Unrecorded \/ AcquireTampered

Spec == Init /\ [][Next]_vars

(***************************************************************************)
(* Vocabulary of the properties.                                           *)
(***************************************************************************)
Last == calls[Len(calls)]

\* The last top-level call applied a constructed move.
Called == Len(calls) > 0 /\ Last.constructed

TopMove == Last.move

Root(m) == find_card(m.card_name).effect

RootIs(m, ct) == Root(m).type = "compound" /\ Root(m).compound_type = ct

\* The atomic effects of a tree, depth-first in declaration order.
RECURSIVE Leaves(_)
RECURSIVE LeavesFrom(_, _)
Leaves(e) == IF e.type = "simple" THEN << e >> ELSE LeavesFrom(e.effects, Len(e.effects))

LeavesFrom(effs, n) ==
  IF n = 0 THEN <<>> ELSE LeavesFrom(effs, n - 1) \o Leaves(effs[n])

IndexSeq(s) == [i \in 1..Len(s) |-> s[i].effect_index]

LeafIndices(e) == {Leaves(e)[i].effect_index : i \in 1..Len(Leaves(e))}

\* The effect indices of a tree that are keys of a dict, in declaration order.
Keyed(t, e) ==
  IndexSeq(SelectSeq(Leaves(e), LAMBDA a : a.effect_index \in DOMAIN t.map))

\* All the nodes of an effect tree.
RECURSIVE Nodes(_)
Nodes(e) ==
  IF e.type = "simple" THEN {e}
  ELSE {e} \cup UNION {Nodes(e.effects[i]) : i \in 1..Len(e.effects)}

IsPrefix(s, t) == Len(s) <= Len(t) /\ \A i \in 1..Len(s) : s[i] = t[i]

\* The handler of move m, started on board b, gets as far as resolving the
\* card's effect tree.
ReachesEffects(b, m) ==
  CASE m.move_type = "play" ->
         m.card_name \in b.hand /\ ~find_card(m.card_name).construct
    [] m.move_type = "defeat" ->
         /\ b.center[m.card_name] > 0
         /\ find_card(m.card_name).cost <= b.power_remaining
    [] m.move_type = "activate" ->
         m.card_name \in b.constructs /\ m.card_name \notin b.activated
    [] m.move_type = "acquire" -> FALSE

\* The events of a trace of one kind at one depth.
EventsAt(tr, kind, d) == SelectSeq(tr, LAMBDA e : e.k = kind /\ e.d = d)

\* The effects the top-level move activated itself, in order.
TopEffects == EventsAt(trace, "effect", 1)

TopActivated == IndexSeq(TopEffects)

\* The last top-level call got to resolve the tree of its card with a dict.
Resolving == Called /\ ~IsNone(TopMove.targets) /\ ReachesEffects(before, TopMove)

(***************************************************************************)
(* C1: resolving an OR root with a dict activates exactly the one keyed    *)
(* atomic effect of the flattened OR when exactly one is keyed, and        *)
(* otherwise fails with AmbiguousOrTarget having activated none.           *)
(***************************************************************************)
C1_OrExactlyOne ==
  (Resolving /\ RootIs(TopMove, "OR")) =>
    LET keyed == Keyed(TopMove.targets, Root(TopMove))
    IN IF Len(keyed) = 1
       THEN TopActivated = keyed /\ err /= AmbiguousOrTarget
       ELSE TopActivated = <<>> /\ err = AmbiguousOrTarget

C1_Witness ==
  /\ Resolving /\ RootIs(TopMove, "OR")
  /\ DOMAIN TopMove.targets.map = {2}
  /\ TopActivated = << 2 >>
  /\ err = NoErr

(***************************************************************************)
(* C2: whenever two different branches of an OR anywhere in the tree have  *)
(* keyed atomic effects, resolution fails with AmbiguousOrTarget and no    *)
(* effect of that OR is activated.                                         *)
(***************************************************************************)
BranchKeyed(t, o, i) == Keyed(t, o.effects[i]) /= <<>>

TwoBranchesKeyed(t, o) ==
  \E i, j \in 1..Len(o.effects) : i /= j /\ BranchKeyed(t, o, i) /\ BranchKeyed(t, o, j)

AmbiguousOrs(m) ==
  {o \in Nodes(Root(m)) :
     /\ o.type = "compound"
     /\ o.compound_type = "OR"
     /\ TwoBranchesKeyed(m.targets, o)}

C2_EveryOrAmbiguous ==
  Resolving =>
    \A o \in AmbiguousOrs(TopMove) :
      /\ err = AmbiguousOrTarget
      /\ \A i \in 1..Len(TopActivated) : TopActivated[i] \notin LeafIndices(o)

UnkeyedMandatory(m) ==
  {a \in {Leaves(Root(m))[i] : i \in 1..Len(Leaves(Root(m)))} :
     ~a.optional /\ a.effect_index \notin DOMAIN m.targets.map}

C4_MissingMandatoryRaises ==
  (Resolving /\ RootIs(TopMove, "AND") /\ UnkeyedMandatory(TopMove) /= {}) =>
    err = MissingMandatoryTarget

(***************************************************************************)
(* C4 amended: an AND root's atomic effect without a key, optional or not, *)
(* is skipped silently: no MissingMandatoryTarget is raised, the effect is *)
(* not activated, and the keyed effects are resolved as usual.             *)
(***************************************************************************)
C4_MissingMandatorySkipped ==
  (Resolving /\ RootIs(TopMove, "AND") /\ UnkeyedMandatory(TopMove) /= {}) =>
    /\ err /= MissingMandatoryTarget
    /\ \A a \in UnkeyedMandatory(TopMove) :
         \A i \in 1..Len(TopActivated) : TopActivated[i] /= a.effect_index
    /\ err = NoErr => TopActivated = Keyed(TopMove.targets, Root(TopMove))

C4_Witness ==
  /\ Resolving /\ RootIs(TopMove, "AND")
  /\ UnkeyedMandatory(TopMove) /= {}
  /\ TopActivated = << 2 >>
  /\ err = NoErr

(***************************************************************************)
(* C5: the player's move log and the board's moves-played-this-turn log    *)
(* are exactly the moves of the calls made with should_add_to_moves=True,  *)
(* in call order; the moves an effect synthesizes are applied unrecorded   *)
(* and add nothing to either log.                                          *)
(***************************************************************************)
RecordedCalls == SelectSeq(calls, LAMBDA c : c.constructed /\ c.record)

RecordedMoves == [i \in 1..Len(RecordedCalls) |-> RecordedCalls[i].move]

C5_LogsAreRecordedCalls ==
  /\ board.moves = RecordedMoves
  /\ board.moves_played_this_turn = RecordedMoves
  /\ \A i \in 1..Len(trace) :
       (trace[i].k = "call" /\ trace[i].d > 1) => ~trace[i].record

C5_Witness ==
  /\ Len(calls) = 2
  /\ calls[1].move.card_name = "Chain" /\ calls[1].record /\ calls[1].err = NoErr
  /\ ~calls[2].record /\ calls[2].err = NoErr
  /\ board.moves = << calls[1].move >>
  /\ \E i \in 1..Len(calls[1].trace) :
       calls[1].trace[i].k = "call" /\ calls[1].trace[i].d = 3

(***************************************************************************)
(* C6: the moves an activated effect returns are applied in the order      *)
(* returned, each resolved to its return (with all the moves it            *)
(* synthesizes in turn) before the next is applied, and all of them before *)
(* anything else happens in the activating call: a later sibling effect,   *)
(* an event, its return.                                                   *)
(***************************************************************************)
Min(S) == CHOOSE x \in S : \A y \in S : x <= y

\* Where what effect event i set off ends: the next event no deeper than it.
SegEnd(tr, i) ==
  LET later == {j \in (i + 1)..Len(tr) : tr[j].d <= tr[i].d}
  IN IF later = {} THEN Len(tr) + 1 ELSE Min(later)

\* The calls made for the moves effect event i returned.
SubCalls(tr, i) ==
  SelectSeq([j \in 1..Len(tr) |-> j],
            LAMBDA j : /\ j > i
                       /\ j < SegEnd(tr, i)
                       /\ tr[j].k = "call"
                       /\ tr[j].d = tr[i].d + 1)

PendingOf(e) ==
  LET ls == Leaves(find_card(e.card_name).effect)
  IN ls[CHOOSE n \in 1..Len(ls) : ls[n].effect_index = e.effect_index].pending

ReturnsBefore(tr, c, limit) ==
  \E r \in (c + 1)..(limit - 1) : tr[r].k = "ret" /\ tr[r].d = tr[c].d

C6_SubMovesNested ==
  \A i \in 1..Len(trace) :
    trace[i].k = "effect" =>
      LET end == SegEnd(trace, i)
          cs == SubCalls(trace, i)
          pend == PendingOf(trace[i])
      IN /\ Len(cs) <= Len(pend)
         /\ \A n \in 1..Len(cs) :
              /\ trace[cs[n]].move = MoveRec(pend[n][1], pend[n][2], pend[n][3])
              /\ n < Len(cs) => ReturnsBefore(trace, cs[n], cs[n + 1])
              /\ n = Len(cs) => \/ ReturnsBefore(trace, cs[n], end)
                                \/ end = Len(trace) + 1 /\ err /= NoErr
         /\ end <= Len(trace) => Len(cs) = Len(pend)
         /\ end = Len(trace) + 1 => err /= NoErr

C6_Witness ==
  /\ err = NoErr
  /\ \E i \in 1..Len(trace) :
       /\ trace[i].k = "effect" /\ trace[i].d = 1
       /\ Len(PendingOf(trace[i])) = 2
       /\ Len(SubCalls(trace, i)) = 2
       /\ \E j \in SubCalls(trace, i)[1]..SubCalls(trace, i)[2] :
            trace[j].k = "call" /\ trace[j].d = 3

(***************************************************************************)
(* C7: a failure ends the top-level call at once: the raise is the last    *)
(* thing that happens, so no effect is activated, no synthesized move      *)
(* applied, no call returns and no event fires after it.                   *)
(***************************************************************************)
C7_FailureAborts ==
  /\ \A i \in 1..Len(trace) :
       trace[i].k = "raise" => i = Len(trace) /\ err = trace[i].err
  /\ err /= NoErr => Len(trace) > 0 /\ trace[Len(trace)].k = "raise"

C7_Witness ==
  /\ Resolving /\ RootIs(TopMove, "AND")
  /\ Keyed(TopMove.targets, Root(TopMove)) = << 1, 2 >>
  /\ TopActivated = << 1 >>
  /\ err = CardNotAvailable
  /\ trace[Len(trace)].k = "raise" /\ trace[Len(trace)].d = 2

(***************************************************************************)
(* C8: an acquire move with targets is refused: the constructor raises,    *)
(* and one whose targets were set after construction fails when applied,   *)
(* before the card leaves the center, before it is paid for or acquired    *)
(* and before acquired_card fires.                                         *)
(***************************************************************************)
C8_AcquireWithTargetsFails ==
  (Len(calls) > 0 /\ Last.move.move_type = "acquire" /\ ~IsNone(Last.move.targets)) =>
    /\ err = InvalidMoveShape
    /\ ~Last.constructed => board = before
    /\ board.center = before.center
    /\ board.runes_remaining = before.runes_remaining
    /\ board.acquired = before.acquired
    /\ \A i \in 1..Len(trace) : trace[i].k \in {"call", "raise"}

C8_Witness ==
  /\ Called /\ TopMove.move_type = "acquire" /\ ~IsNone(TopMove.targets)
  /\ before.center[TopMove.card_name] > 0
  /\ before.runes_remaining >= find_card(TopMove.card_name).cost
  /\ err = InvalidMoveShape

(***************************************************************************)
(* C9: a successful defeat of a card other than Cultist grants the honor   *)
(* honor_for_defeating_monster held before it, once, and leaves the bonus  *)
(* at zero; over a sequence of calls every defeat after the first that     *)
(* granted the bonus grants zero.                                          *)
(***************************************************************************)
\* The call event that event i of a trace belongs to.
EnclosingCall(tr, i) ==
  tr[CHOOSE j \in 1..i : /\ tr[j].k = "call" /\ tr[j].d = tr[i].d
                         /\ \A l \in (j + 1)..i : ~(tr[l].k = "call" /\ tr[l].d = tr[i].d)]

\* The amounts of the bonuses the defeats of a trace granted, in order.
DefeatGrants(tr) ==
  LET idx == SelectSeq([j \in 1..Len(tr) |-> j],
                       LAMBDA j : /\ tr[j].k = "give_honor"
                                  /\ EnclosingCall(tr, j).move.move_type = "defeat")
  IN [n \in 1..Len(idx) |-> tr[idx[n]].amount]

RECURSIVE AllDefeatGrants(_)
AllDefeatGrants(n) ==
  IF n = 0 THEN <<>> ELSE AllDefeatGrants(n - 1) \o DefeatGrants(calls[n].trace)

C9_DefeatBonusOnce ==
  /\ (Called /\ TopMove.move_type = "defeat" /\ TopMove.card_name /= "Cultist"
        /\ err = NoErr) =>
       /\ board.honor = before.honor + before.honor_for_defeating_monster
       /\ board.honor_for_defeating_monster = 0
       /\ DefeatGrants(trace) = << before.honor_for_defeating_monster >>
  /\ \A n \in 2..Len(AllDefeatGrants(Len(calls))) : AllDefeatGrants(Len(calls))[n] = 0

C9_Witness ==
  /\ Len(calls) = 2
  /\ \A n \in 1..2 : /\ calls[n].move.move_type = "defeat"
                     /\ calls[n].move.card_name /= "Cultist"
                     /\ calls[n].err = NoErr
  /\ calls[1].before.honor_for_defeating_monster = 2
  /\ AllDefeatGrants(2) = << 2, 0 >>
  /\ board.honor = 2

(***************************************************************************)
(* C10: a defeat of Cultist grants no defeat bonus and leaves              *)
(* honor_for_defeating_monster as it was, so that a later defeat of        *)
(* another card is granted it.                                             *)
(***************************************************************************)
IsDefeatOf(m, cultist) ==
  m.move_type = "defeat" /\ ((m.card_name = "Cultist") <=> cultist)

C10_CultistNoBonus ==
  /\ \A i \in 1..Len(trace) :
       trace[i].k = "give_honor" => ~IsDefeatOf(EnclosingCall(trace, i).move, TRUE)
  /\ (\A i \in 1..Len(trace) :
        trace[i].k = "call" => ~IsDefeatOf(trace[i].move, FALSE)) =>
       board.honor_for_defeating_monster = before.honor_for_defeating_monster
  /\ (Called /\ IsDefeatOf(TopMove, TRUE) /\ err = NoErr) =>
       board.honor = before.honor
  /\ (/\ Len(calls) >= 2
      /\ IsDefeatOf(calls[Len(calls) - 1].move, TRUE)
      /\ IsDefeatOf(TopMove, FALSE) /\ Called /\ err = NoErr) =>
       board.honor = before.honor
                       + calls[Len(calls) - 1].before.honor_for_defeating_monster

C10_Witness ==
  /\ Len(calls) = 2
  /\ IsDefeatOf(calls[1].move, TRUE) /\ calls[1].err = NoErr
  /\ calls[1].before.honor_for_defeating_monster = 2
  /\ before.honor_for_defeating_monster = 2
  /\ IsDefeatOf(TopMove, FALSE) /\ err = NoErr
  /\ board.honor = 2

(***************************************************************************)
(* C11: a defeat succeeds only when the card's cost is at most the power   *)
(* remaining, and then debits exactly the cost; a defeat of a card in the  *)
(* center that costs more fails and debits nothing; power_remaining is     *)
(* never negative.                                                         *)
(***************************************************************************)
IsTop(mt) == Called /\ TopMove.move_type = mt

TopCard == find_card(TopMove.card_name)

C11_DefeatDebitsPower ==
  /\ board.power_remaining >= 0
  /\ (IsTop("defeat") /\ err = NoErr) =>
       /\ TopCard.cost <= before.power_remaining
       /\ board.power_remaining = before.power_remaining - TopCard.cost
  /\ (IsTop("defeat") /\ before.center[TopMove.card_name] > 0
        /\ TopCard.cost > before.power_remaining) =>
       /\ err = InsufficientPower
       /\ board.power_remaining = before.power_remaining

C11_Witness ==
  /\ Len(calls) = 2
  /\ calls[1].move.move_type = "defeat" /\ calls[1].err = NoErr
  /\ before.power_remaining = calls[1].before.power_remaining
                                - find_card(calls[1].move.card_name).cost
  /\ IsTop("defeat") /\ before.center[TopMove.card_name] > 0
  /\ TopCard.cost > before.power_remaining
  /\ err = InsufficientPower

(***************************************************************************)
(* C12: a play of a card in hand resolves the card's effect tree iff the   *)
(* card is no construct; a construct's effects are activated only by an    *)
(* activate move, which marks the construct activated before it resolves   *)
(* the tree.                                                               *)
(***************************************************************************)
\* What resolving the tree of move m activates when it goes through.
Expected(m) ==
  IF Root(m).type = "simple" THEN << Root(m).effect_index >>
  ELSE Keyed(m.targets, Root(m))

\* The tree of the top-level move was resolved: it went through and
\* activated what it had to, or the resolution (or a move it synthesized)
\* raised.
TopResolved ==
  /\ err = NoErr => TopActivated = Expected(TopMove)
  /\ err /= NoErr =>
       \/ trace[Len(trace)].d > 1
       \/ err \in {AmbiguousOrTarget, TypeError}

PlayGrants(tr) ==
  LET idx == SelectSeq([j \in 1..Len(tr) |-> j],
                       LAMBDA j : /\ tr[j].k = "give_honor"
                                  /\ EnclosingCall(tr, j).move.move_type = "play")
  IN [n \in 1..Len(idx) |-> tr[idx[n]].amount]

RECURSIVE AllPlayGrants(_)
AllPlayGrants(n) ==
  IF n = 0 THEN <<>> ELSE AllPlayGrants(n - 1) \o PlayGrants(calls[n].trace)

LifeboundHero(card) == is_lifebound(card) /\ is_hero(card)

C13_LifeboundBonusOnce ==
  /\ (IsTop("play") /\ LifeboundHero(TopCard) /\ err = NoErr) =>
       /\ board.honor = before.honor + before.honor_for_lifebound_hero
       /\ board.honor_for_lifebound_hero = 0
       /\ PlayGrants(trace) = << before.honor_for_lifebound_hero >>
  /\ (IsTop("play") /\ ~LifeboundHero(TopCard)) =>
       /\ board.honor = before.honor
       /\ board.honor_for_lifebound_hero = before.honor_for_lifebound_hero
       /\ PlayGrants(trace) = <<>>
  /\ \A n \in 2..Len(AllPlayGrants(Len(calls))) : AllPlayGrants(Len(calls))[n] = 0

C13_Witness ==
  /\ Len(calls) = 2
  /\ calls[1].move.move_type = "play" /\ ~LifeboundHero(find_card(calls[1].move.card_name))
  /\ calls[1].err = NoErr
  /\ before.honor_for_lifebound_hero = 1
  /\ IsTop("play") /\ LifeboundHero(TopCard) /\ err = NoErr
  /\ board.honor = 1 /\ board.honor_for_lifebound_hero = 0

(***************************************************************************)
(* C14: every atomic effect activated has its effect index as a key of the *)
(* targets of the move that activated it.                                  *)
(***************************************************************************)
C14_ActivatedHasKey ==
  \A i \in 1..Len(trace) :
    trace[i].k = "effect" =>
      LET m == EnclosingCall(trace, i).move
      IN ~IsNone(m.targets) /\ HasKey(m.targets, trace[i].effect_index)

(***************************************************************************)
(* C15: an acquire removes the card from the center, has it paid for, puts *)
(* it in the acquired pile and fires acquired_card once, in that order;    *)
(* when the removal or the payment fails the card is not acquired and no   *)
(* event fires.                                                            *)
(***************************************************************************)
\* What a call does itself, from its call event c to its return or raise.
OwnKinds(tr, c) ==
  LET own == SelectSeq([j \in 1..Len(tr) |-> j],
                       LAMBDA j : j > c /\ tr[j].d = tr[c].d)
      stop == Min({n \in 1..Len(own) : tr[own[n]].k \in {"ret", "raise", "call"}}
                  \cup {Len(own) + 1})
  IN [n \in 1..Min({stop, Len(own)}) |-> tr[own[n]].k]

C15_AcquireInOrder ==
  /\ \A c \in 1..Len(trace) :
       (trace[c].k = "call" /\ trace[c].move.move_type = "acquire") =>
         /\ OwnKinds(trace, c) \in { << "remove", "pay", "acquire", "event", "ret" >>,
                                     << "remove", "raise" >>,
                                     << "raise" >> }
         /\ \A j \in (c + 1)..Len(trace) :
              (trace[j].k \in {"remove", "pay", "acquire", "event"}
                 /\ j <= c + Len(OwnKinds(trace, c))) =>
                /\ trace[j].card_name = trace[c].move.card_name
                /\ trace[j].k = "event" => trace[j].event = "acquired_card"
  /\ (IsTop("acquire") /\ IsNone(TopMove.targets)) =>
       IF before.center[TopMove.card_name] = 0
       THEN err = CardUnavailable /\ board.acquired = before.acquired
       ELSE IF TopCard.cost > before.runes_remaining
       THEN /\ err = InsufficientResources
            /\ board.acquired = before.acquired
            /\ board.runes_remaining = before.runes_remaining
       ELSE /\ err = NoErr
            /\ board.center[TopMove.card_name] = before.center[TopMove.card_name] - 1
            /\ board.runes_remaining = before.runes_remaining - TopCard.cost
            /\ board.acquired = Append(before.acquired, TopMove.card_name)

C15_Witness ==
  /\ Len(calls) = 2
  /\ calls[1].move.move_type = "acquire" /\ calls[1].err = NoErr
  /\ Len(before.acquired) = 1
  /\ IsTop("acquire") /\ IsNone(TopMove.targets)
  /\ before.center[TopMove.card_name] > 0
  /\ err = InsufficientResources
  /\ OwnKinds(trace, 1) = << "remove", "raise" >>

(***************************************************************************)
(* C16: a key of the target map that is no effect index of the card's tree *)
(* changes nothing: the move activates the same atomic effects in the same *)
(* order, ends with the same outcome and leaves the same board as the move *)
(* without that key does from the same board.                              *)
(***************************************************************************)
\* The keys of the targets of m that are no effect index of its card.
ExtraKeys(m) ==
  IF IsNone(m.targets) THEN {} ELSE DOMAIN m.targets.map \ LeafIndices(Root(m))

\* The move m without the extra keys.
Stripped(m) ==
  [m EXCEPT !.targets.map =
     [k \in DOMAIN m.targets.map \ ExtraKeys(m) |-> m.targets.map[k]]]

\* What is observed of a call: its outcome, the effects activated at any
\* depth in order, and the board without the two logs of moves.
Observed(w) ==
  [err |-> w.err,
   effects |-> LET es == SelectSeq(w.trace, LAMBDA e : e.k = "effect")
               IN [i \in 1..Len(es) |-> << es[i].d, es[i].card_name, es[i].effect_index >>],
   board |-> [w.board EXCEPT !.moves = <<>>, !.moves_played_this_turn = <<>>]]

C17_LoggedMovesCompleted ==
  /\ \A i \in 1..Len(RecordedCalls) :
       \/ RecordedCalls[i].err = NoErr
       \/ /\ \A j \in 1..Len(board.moves) :
               j = i => board.moves[j] /= RecordedCalls[i].move
          /\ \A j \in 1..Len(board.moves_played_this_turn) :
               j = i => board.moves_played_this_turn[j] /= RecordedCalls[i].move
  /\ (Called /\ err /= NoErr) =>
       /\ board.moves = before.moves
       /\ board.moves_played_this_turn = before.moves_played_this_turn

(***************************************************************************)
(* C18: a play of a card that is not in the hand fails and leaves honor    *)
(* and honor_for_lifebound_hero as they were, for a lifebound hero with a  *)
(* bonus to grant too.                                                     *)
(***************************************************************************)
C18_FailedPlayKeepsHonor ==
  (IsTop("play") /\ TopMove.card_name \notin before.hand) =>
    /\ err = CardNotAvailable
    /\ board.honor = before.honor
    /\ board.honor_for_lifebound_hero = before.honor_for_lifebound_hero

(***************************************************************************)
(* C19: a defeat of a card in the center that costs more than the power    *)
(* remaining fails and changes nothing: the card is still in the center,   *)
(* power_remaining, honor and honor_for_defeating_monster are as they      *)
(* were, no effect is activated and no defeated_card event fires.          *)
(***************************************************************************)
C19_FailedDefeatKeepsBoard ==
  (IsTop("defeat") /\ before.center[TopMove.card_name] > 0
     /\ TopCard.cost > before.power_remaining) =>
    /\ err /= NoErr
    /\ board.center = before.center
    /\ board.power_remaining = before.power_remaining
    /\ board.honor = before.honor
    /\ board.honor_for_defeating_monster = before.honor_for_defeating_monster
    /\ \A i \in 1..Len(trace) : trace[i].k \notin {"effect", "event"}

(***************************************************************************)
(* C20 as stated: a play, defeat or activate whose targets are None        *)
(* resolves like one with an empty dict: on an AND root it activates       *)
(* nothing and succeeds, on an OR root it fails with AmbiguousOrTarget.    *)
(***************************************************************************)
\* The last top-level call got to resolve the tree of its card with None.
ResolvingNone == Called /\ IsNone(TopMove.targets) /\ ReachesEffects(before, TopMove)

====
